---------------------------- MODULE Spec2Model ----------------------------
(***************************************************************************)
(* A model of e18e-tools: the dependents CLI (src/src/index.ts, with the   *)
(* same main in src/src/getDependents.ts) and the format command          *)
(* (src/unnamed/part_002).                                                 *)
(*                                                                         *)
(* JavaScript strings are sequences of one-character strings; the value   *)
(* undefined of a "string | undefined" is the record Undefined.  Result   *)
(* objects live in a heap keyed by the place of their creation (the path  *)
(* of fetch positions leading to them), arrays are sequences of heap      *)
(* keys, so that the in-place writes of main (r.children = ..., the       *)
(* accumulate loop) are seen through every array that holds the object.   *)
(***************************************************************************)
EXTENDS Integers, Sequences, FiniteSets, TLC

(***************************************************************************)
(* Bounds of the model.                                                    *)
(***************************************************************************)
MaxTokenLen == 4
MaxDepths == 2
MaxWidth == 2
MaxRows == 2
MaxNodes == 3
MaxDownloads == 1
MaxSize == 1

(***************************************************************************)
(* Strings.                                                                *)
(***************************************************************************)
Undefined == [def |-> FALSE, str |-> <<>>]

Str(s) == [def |-> TRUE, str |-> s]

Min(a, b) == IF a <= b THEN a ELSE b

\* String.prototype.slice(from, to) with 0-based, end-exclusive indices.
Slice(s, from, to) == SubSeq(s, from + 1, Min(to, Len(s)))

\* String.prototype.startsWith for a one-character prefix.
StartsWith(s, ch) == Len(s) > 0 /\ s[1] = ch

\* String.prototype.indexOf for a one-character needle, from position `from`
\* (0-based); -1 when there is none.
RECURSIVE IndexOfFrom(_, _, _)
IndexOfFrom(s, ch, from) ==
  IF from >= Len(s) THEN -1
  ELSE IF s[from + 1] = ch THEN from
  ELSE IndexOfFrom(s, ch, from + 1)

\* String.prototype.lastIndexOf for a one-character needle; -1 when none.
RECURSIVE LastIndexBefore(_, _, _)
LastIndexBefore(s, ch, upto) ==
  IF upto < 0 THEN -1
  ELSE IF s[upto + 1] = ch THEN upto
  ELSE LastIndexBefore(s, ch, upto - 1)

LastIndexOf(s, ch) == LastIndexBefore(s, ch, Len(s) - 1)

\* String.prototype.split for a one-character separator: the pieces between
\* the separators, "" included ("".split(",") is [""]).
RECURSIVE Split(_, _)
Split(s, ch) ==
  LET i == IndexOfFrom(s, ch, 0)
  IN  IF i = -1 THEN <<s>>
      ELSE <<Slice(s, 0, i)>> \o Split(Slice(s, i + 1, Len(s)), ch)

\* String.prototype.includes: ex occurs in s as a contiguous substring.
Includes(s, ex) ==
  \E i \in 0..(Len(s) - Len(ex)) : Slice(s, i, i + Len(ex)) = ex

(***************************************************************************)
(* getPackageNameAndVersion                                                *)
(***************************************************************************)
\* The mutant: the scoped branch splits at the first "@" after position 0.
getPackageNameAndVersionFirstAt(inputPackage) ==
  LET scoped == StartsWith(inputPackage, "@")
      parts == Split(inputPackage, "@")
      atPosition == IndexOfFrom(inputPackage, "@", 1)
  IN  IF scoped
      THEN IF atPosition = -1
           THEN [name |-> inputPackage, version |-> Undefined]
           ELSE [name |-> Slice(inputPackage, 0, atPosition),
                 version |-> Str(Slice(inputPackage, atPosition + 1,
                                       Len(inputPackage)))]
      ELSE [name |-> parts[1],
            version |-> IF Len(parts) >= 2 THEN Str(parts[2]) ELSE Undefined]

getPackageNameAndVersion(inputPackage) ==
  LET scoped == StartsWith(inputPackage, "@")
      parts == Split(inputPackage, "@")
      atPosition == LastIndexOf(inputPackage, "@")
  IN  IF scoped
      THEN IF atPosition = 0
           THEN [name |-> inputPackage, version |-> Undefined]
           ELSE [name |-> Slice(inputPackage, 0, atPosition),
                 version |-> Str(Slice(inputPackage, atPosition + 1,
                                       Len(inputPackage)))]
      ELSE [name |-> parts[1],
            version |-> IF Len(parts) >= 2 THEN Str(parts[2]) ELSE Undefined]


(***************************************************************************)
(* State.                                                                  *)
(***************************************************************************)
VARIABLES
  token,     \* the input of getPackageNameAndVersion under SpecParse
  parsed,    \* its result: [done, name, version]
  downloadsView, \* the downloads view: the count of each package it knows
  argv,      \* the parsed command line of the dependents tool
  proc,      \* the tool's process: [state, code]
  calls,     \* the invocations of main, keyed by the node each one expands
  heap,      \* the Results objects, keyed by <<..., fetch position>>
  fetches,   \* requests issued so far: [registry, dependents, stats]
  disk,      \* the file named by --file / read by format: [kind, data]
  stderr,    \* the error messages printed so far
  listed,    \* what --list printed: [done, names]
  rendered,  \* what printOutput printed: [done, rows, tree]
  fmt        \* the format command: [state, code, err, rows, number]

vars == <<token, parsed, downloadsView, argv, proc, calls, heap, fetches,
          disk, stderr, listed, rendered, fmt>>

toolVars == <<downloadsView, argv, proc, calls, heap, fetches, disk, stderr,
              listed, rendered, fmt>>

(***************************************************************************)
(* Inputs.                                                                 *)
(***************************************************************************)
Chars == {"@", "a", "1"}

Tokens == UNION {[1..n -> Chars] : n \in 0..MaxTokenLen}

\* The names the dependents fetch may return: the root's own name (a cycle)
\* and a name with a second character.
PackageNames == {<<"a">>, <<"a", "b">>}

RootTokens == {<<"a">>, <<"a", "@", "1">>}

\* --exclude: absent, or the two comma-separated substrings "c" and "b".
ExcludeArgs == {Undefined, Str(<<"c", ",", "b">>)}

\* --number: one small value and the default of the option.
DefaultNumber == 200

Numbers == {1, DefaultNumber}

\* The command line when sade runs no action (--help, --version).
NoAction ==
  [action |-> FALSE, pkg |-> Undefined, number |-> DefaultNumber,
   file |-> FALSE, exclude |-> Undefined, list |-> FALSE, recursive |-> 3,
   depths |-> 0, accumulate |-> FALSE]

\* The command lines: every combination of the options at the smaller depths,
\* and at the largest depth the combinations of width, --accumulate and
\* --file for a plain package name.
ArgvSet ==
  {NoAction} \cup
  [action : {TRUE}, pkg : {Undefined} \cup {Str(t) : t \in RootTokens},
   number : Numbers, file : BOOLEAN, exclude : ExcludeArgs, list : BOOLEAN,
   recursive : 0..MaxWidth, depths : 0..(MaxDepths - 1),
   accumulate : BOOLEAN] \cup
  [action : {TRUE}, pkg : {Str(<<"a">>)}, number : {DefaultNumber},
   file : BOOLEAN, exclude : {Undefined}, list : {FALSE},
   recursive : 0..MaxWidth, depths : {MaxDepths}, accumulate : BOOLEAN]

Root == <<>>

Front(c) == SubSeq(c, 1, Len(c) - 1)

NoDisk == [kind |-> "absent", data |-> <<>>]

(***************************************************************************)
(* The pure parts of main.                                                 *)
(***************************************************************************)
\* filterExcludes: no comma-separated piece of argv.exclude occurs in the
\* name; without --exclude every name passes.
filterExcludes(name) ==
  IF argv.exclude.def
  THEN LET exs == Split(argv.exclude.str, ",")
       IN  \A i \in 1..Len(exs) : ~Includes(name, exs[i])
  ELSE TRUE

\* Array.prototype.filter(filterExcludes) on an array of Results.
RECURSIVE FilterExcludes(_, _)
FilterExcludes(h, ids) ==
  IF ids = <<>> THEN <<>>
  ELSE (IF filterExcludes(h[Head(ids)].name) THEN <<Head(ids)>> ELSE <<>>)
       \o FilterExcludes(h, Tail(ids))

\* Array.prototype.sort((a, b) => b.downloads - a.downloads): a stable sort,
\* here by insertion of each element after the elements it does not beat.
RECURSIVE InsertByDownloads(_, _, _)
InsertByDownloads(h, sorted, id) ==
  IF sorted = <<>> THEN <<id>>
  ELSE IF h[id].downloads - h[Head(sorted)].downloads > 0
       THEN <<id>> \o sorted
       ELSE <<Head(sorted)>> \o InsertByDownloads(h, Tail(sorted), id)

RECURSIVE SortFrom(_, _, _)
SortFrom(h, sorted, rest) ==
  IF rest = <<>> THEN sorted
  ELSE SortFrom(h, InsertByDownloads(h, sorted, Head(rest)), Tail(rest))

\* The mutant: the comparator a.downloads - b.downloads (ascending).
SortByDownloadsAscending(h, ids) ==
  LET desc == SortFrom(h, <<>>, ids)
  IN  [i \in 1..Len(desc) |-> desc[Len(desc) + 1 - i]]

SortByDownloads(h, ids) == SortFrom(h, <<>>, ids)

\* downloadStats[name] ?? 0 on the object built from the response rows.
DownloadsOf(downloadStats, name) ==
  IF name \in DOMAIN downloadStats THEN downloadStats[name] ELSE 0

RECURSIVE SumSeq(_)
SumSeq(s) == IF s = <<>> THEN 0 ELSE Head(s) + SumSeq(Tail(s))

\* The mutant: the children are not added.
accumulateStatsOwn(h, id) == h[id].downloads

\* accumulateStats: the node's downloads plus those of all its descendants.
RECURSIVE accumulateStats(_, _)
accumulateStats(h, id) ==
  SumSeq([i \in 1..Len(h[id].children) |->
            accumulateStats(h, h[id].children[i])])
  + h[id].downloads

\* JSON.stringify of one Results object: the tree below it, by value.
RECURSIVE Serialize(_, _)
Serialize(h, id) ==
  [name |-> h[id].name, downloads |-> h[id].downloads,
   traffic |-> h[id].traffic,
   children |-> [i \in 1..Len(h[id].children) |->
                   Serialize(h, h[id].children[i])]]

SerializeAll(h, ids) == [i \in 1..Len(ids) |-> Serialize(h, ids[i])]

\* The mutant: the slice by argv.number is left out.
ShownWidthOnly(h, results) ==
  Slice(FilterExcludes(h, results), 0,
        IF argv.depths # 0 /\ argv.recursive # 0
        THEN argv.recursive ELSE Len(results))

\* The mutant: the slices are taken first and the filter afterwards.
ShownSlicedFirst(h, results) ==
  FilterExcludes(h, Slice(Slice(results, 0, argv.number), 0,
                          IF argv.depths # 0 /\ argv.recursive # 0
                          THEN argv.recursive ELSE Len(results)))

\* The first statement of printOutput: the filter, then the slice by
\* argv.number, then the slice by argv.depths ? argv.recursive || Infinity
\* : Infinity.
Shown(h, results) ==
  Slice(Slice(FilterExcludes(h, results), 0, argv.number), 0,
        IF argv.depths # 0 /\ argv.recursive # 0
        THEN argv.recursive ELSE Len(results))

\* printOutput of index.ts: the rows of the table, one per shown node.
printOutput(h, results) ==
  LET shown == Shown(h, results)
  IN  [i \in 1..Len(shown) |->
         [name |-> h[shown[i]].name, downloads |-> h[shown[i]].downloads,
          traffic |-> h[shown[i]].traffic]]

\* printOutput of getDependents.ts (output "ci"): after the line of a node
\* with children it prints the children the same way, one level deeper.
RECURSIVE printOutputTree(_, _, _)
RECURSIVE printLines(_, _, _)
printLines(h, shown, level) ==
  IF shown = <<>> THEN <<>>
  ELSE LET pkg == h[Head(shown)]
       IN  <<[name |-> pkg.name, downloads |-> pkg.downloads,
              traffic |-> pkg.traffic, level |-> level]>>
           \o (IF Len(pkg.children) > 0
               THEN printOutputTree(h, pkg.children, level + 1) ELSE <<>>)
           \o printLines(h, Tail(shown), level)

printOutputTree(h, results, level) == printLines(h, Shown(h, results), level)

(***************************************************************************)
(* The invocations of main.                                                *)
(***************************************************************************)
\* The locals of main(inputPackage, depths) at its first await.
NewCall(inputPackage, depths) ==
  LET nv == getPackageNameAndVersion(inputPackage)
  IN  [pc |-> "resolve", depths |-> depths, packageName |-> nv.name,
       version |-> nv.version, info |-> "pending", error |-> "none",
       size |-> 0, dependents |-> <<>>,
       results |-> <<>>, topResults |-> <<>>, expanded |-> <<>>]

\* !version: undefined and "" are both falsy.
NoVersion(version) == ~version.def \/ version.str = <<>>

\* The mutant: the depth is not looked at.
RecursingAtAnyDepth(depths) == argv.recursive # 0

\* argv.recursive && depths
Recursing(depths) == argv.recursive # 0 /\ depths # 0

\* The mutant: no call counts as an inner one.
InnerCallNever(depths) == FALSE

\* argv.recursive && argv.depths !== depths: a failed resolution is survived
InnerCall(depths) == argv.recursive # 0 /\ argv.depths # depths

\* The rows every dependents fetch has returned and the version filter kept.
RECURSIVE RowsOf(_, _)
RowsOf(cs, ids) ==
  IF ids = {} THEN 0
  ELSE LET c == CHOOSE x \in ids : TRUE
       IN  Len(cs[c].dependents) + RowsOf(cs, ids \ {c})

RowsLeft == MaxNodes - RowsOf(calls, DOMAIN calls)

SeqsUpTo(S, n) == UNION {[1..k -> S] : k \in 0..n}

\* The subsequence of s at the positions in keep.
RECURSIVE Keep(_, _, _)
Keep(s, keep, i) ==
  IF i > Len(s) THEN <<>>
  ELSE (IF i \in keep THEN <<s[i]>> ELSE <<>>) \o Keep(s, keep, i + 1)

Range(s) == {s[i] : i \in 1..Len(s)}

\* The mutant: the throw is caught and the call returns an empty list.
RejectSwallowed(c, what) ==
  /\ calls' = [calls EXCEPT ![c].pc = "done", ![c].error = what]
  /\ stderr' = stderr

\* A throw in main (what: the await that threw): its promise rejects; the
\* outermost one is caught by .catch(console.error).
Reject(c, what) ==
  /\ calls' = [calls EXCEPT ![c].pc = "rejected", ![c].error = what]
  /\ stderr' = IF c = Root THEN stderr \cup {"HTTP error"} ELSE stderr

\* topResults.forEach of accumulate mode, one top node after the other.
RECURSIVE AccumulateAll(_, _, _)
AccumulateAll(h, ids, size) ==
  IF ids = <<>> THEN h
  ELSE LET r == Head(ids)
           d == accumulateStats(h, r)
       IN  AccumulateAll([h EXCEPT ![r].downloads = d,
                                   ![r].traffic = d * size,
                                   ![r].children = <<>>],
                         Tail(ids), size)

\* main from "if (argv.accumulate)" to its end: aggregation and rendering.
Finish(c, cs, h) ==
  LET h2 == IF argv.accumulate
            THEN AccumulateAll(h, cs[c].topResults, cs[c].size) ELSE h
      top == IF argv.accumulate
             THEN SortByDownloads(h2, cs[c].topResults)
             ELSE cs[c].topResults
  IN  /\ heap' = h2
      /\ calls' = [cs EXCEPT ![c].pc = "done", ![c].topResults = top,
                     \* without recursion topResults is the array results
                     ![c].results = IF Recursing(cs[c].depths)
                                    THEN cs[c].results ELSE top]
      /\ rendered' = [done |-> TRUE, rows |-> printOutput(h2, top),
                      tree |-> printOutputTree(h2, top, 0)]

\* main from "if (depths !== argv.depths)" on, topResults being set: an
\* inner call returns topResults, which the caller's callback stores in
\* r.children; the outermost call goes on to write and render.
Complete(c, cs, h) ==
  IF cs[c].depths # argv.depths
  THEN /\ calls' = [cs EXCEPT ![c].pc = "done"]
       /\ heap' = [h EXCEPT ![c].children = cs[c].topResults]
       /\ UNCHANGED rendered
  ELSE IF argv.file
  THEN /\ calls' = [cs EXCEPT ![c].pc = "write"]
       /\ heap' = h
       /\ UNCHANGED rendered
  ELSE Finish(c, cs, h)

(***************************************************************************)
(* The dependents tool: one action per resumption of main.                *)
(***************************************************************************)
NoParse == [done |-> FALSE, name |-> <<>>, version |-> Undefined]

NoOutput == [done |-> FALSE, rows |-> <<>>, tree |-> <<>>]

NoList == [done |-> FALSE, names |-> <<>>]

\* The downloads view holds a positive count for the packages it knows.
DownloadsViews ==
  UNION {[known -> 1..MaxDownloads] : known \in SUBSET PackageNames}

FmtIdle ==
  [state |-> "idle", code |-> 0, err |-> FALSE, rows |-> <<>>,
   number |-> [inf |-> TRUE, n |-> 0]]

\* The files the format command may be pointed at.
FmtNodes ==
  [name : PackageNames, downloads : 0..1, traffic : 0..1, children : {<<>>}]

FormatDisks ==
  {NoDisk, [kind |-> "garbage", data |-> <<>>]} \cup
  [kind : {"json"}, data : SeqsUpTo(FmtNodes, MaxRows)]

\* --number of the format command: a count, or its default Infinity.
FormatNumbers ==
  {[inf |-> TRUE, n |-> 0]} \cup [inf : {FALSE}, n : Numbers]

Init ==
  /\ token = <<>>
  /\ parsed = NoParse
  /\ calls = <<>>
  /\ heap = <<>>
  /\ fetches = [registry |-> 0, dependents |-> 0, stats |-> 0]
  /\ stderr = {}
  /\ listed = NoList
  /\ rendered = NoOutput
  /\ fmt = FmtIdle
  /\ \/ /\ proc = [state |-> "init", code |-> 0]
        /\ argv \in ArgvSet
        /\ downloadsView \in DownloadsViews
        /\ disk = NoDisk
     \/ /\ proc = [state |-> "unused", code |-> 0]
        /\ argv = NoAction
        /\ downloadsView = <<>>
        /\ disk \in FormatDisks

\* The module body of index.ts: the command line is parsed, then main runs
\* up to its first await.
Startup ==
  /\ proc.state = "init"
  /\ IF ~argv.action
     THEN \* only help or version was shown: process.exit(0)
          /\ proc' = [state |-> "exited", code |-> 0]
          /\ UNCHANGED <<calls, fetches, stderr>>
     ELSE IF ~argv.pkg.def \/ argv.pkg.str = <<>>
     THEN /\ stderr' = stderr \cup {"Please provide a package name"}
          /\ proc' = [state |-> "exited", code |-> 1]
          /\ UNCHANGED <<calls, fetches>>
     ELSE /\ proc' = [state |-> "running", code |-> 0]
          /\ calls' = (Root :> NewCall(argv.pkg.str, argv.depths))
          /\ fetches' = [fetches EXCEPT !.registry = @ + 1]
          /\ UNCHANGED stderr
  /\ UNCHANGED <<token, parsed, downloadsView, argv, heap, disk, listed,
                 rendered, fmt>>

\* fetchPackageInfo settles: null on any failure, else the package's info,
\* of which main reads dist?.size ?? 0.
Resolve(c) ==
  /\ proc.state = "running"
  /\ calls[c].pc = "resolve"
  /\ \E ok \in BOOLEAN, size \in 0..MaxSize :
       IF ok
       THEN /\ calls' = [calls EXCEPT ![c].pc = "dependents",
                                      ![c].info = "ok", ![c].size = size]
            /\ fetches' = [fetches EXCEPT !.dependents = @ + 1]
            /\ UNCHANGED <<heap, stderr, proc>>
       ELSE /\ size = 0
            /\ stderr' = stderr \cup {"Failed to fetch package info"}
            /\ IF InnerCall(calls[c].depths)
               THEN \* return []
                    /\ calls' = [calls EXCEPT ![c].pc = "done",
                                              ![c].info = "null"]
                    /\ heap' = [heap EXCEPT ![c].children = <<>>]
                    /\ UNCHANGED proc
               ELSE \* process.exit(): no code given, so the code is 0
                    /\ proc' = [state |-> "exited", code |-> 0]
                    /\ calls' = [calls EXCEPT ![c].info = "null"]
                    /\ UNCHANGED heap
            /\ UNCHANGED fetches
  /\ UNCHANGED <<token, parsed, downloadsView, argv, disk, listed, rendered,
                 fmt>>

\* fetchDependents settles: a throw on a non-2xx response, else the rows,
\* which the version filter thins when a version was given.
Dependents(c) ==
  /\ proc.state = "running"
  /\ calls[c].pc = "dependents"
  /\ \/ /\ Reject(c, "dependents")
        /\ UNCHANGED <<fetches, listed>>
     \/ \E rows \in SeqsUpTo(PackageNames, Min(MaxRows, RowsLeft)) :
        \E keep \in SUBSET (1..Len(rows)) :
          /\ NoVersion(calls[c].version) => keep = 1..Len(rows)
          /\ LET dependents == Keep(rows, keep, 1)
             IN  IF argv.list
                 THEN /\ listed' = [done |-> TRUE, names |-> dependents]
                      /\ calls' = [calls EXCEPT ![c].pc = "done",
                                                ![c].dependents = dependents]
                      /\ UNCHANGED fetches
                 ELSE /\ calls' = [calls EXCEPT ![c].pc = "stats",
                                                ![c].dependents = dependents]
                      /\ fetches' = [fetches EXCEPT !.stats = @ + 1]
                      /\ UNCHANGED listed
          /\ UNCHANGED stderr
  /\ UNCHANGED <<token, parsed, downloadsView, argv, proc, heap, disk,
                 rendered, fmt>>

\* The mutant: traffic from the size alone.
TrafficOfSizeOnly(downloads, size) == size

\* downloads * (packageInfo.dist?.size ?? 0)
TrafficOf(downloads, size) == downloads * size

\* The Results object main builds for one dependent.
NewResult(name, downloadStats, size) ==
  LET downloads == DownloadsOf(downloadStats, name)
  IN  [name |-> name, downloads |-> downloads,
       traffic |-> TrafficOf(downloads, size), children |-> <<>>]

\* The mutant: one node more than the width is expanded.
SelectedOneMore(h, results) ==
  Slice(FilterExcludes(h, results), 0, argv.recursive + 1)

\* results.filter(filterExcludes).slice(0, argv.recursive): the nodes main
\* expands.
Selected(h, results) == Slice(FilterExcludes(h, results), 0, argv.recursive)

\* fetchDownloadStats settles: a throw on a non-2xx response (there is no
\* catch around fetchWithProgress), else the counts of the names the view
\* knows.  main scores and sorts the dependents and, when recursing, starts
\* one main per selected node.
Stats(c) ==
  /\ proc.state = "running"
  /\ calls[c].pc = "stats"
  /\ \/ /\ Reject(c, "stats")
        /\ UNCHANGED <<heap, fetches, rendered>>
     \/ LET \* Object.fromEntries of the rows the view has for the keys
              downloadStats ==
                [n \in Range(calls[c].dependents) \cap DOMAIN downloadsView
                   |-> downloadsView[n]]
              deps == calls[c].dependents
              ids == [k \in 1..Len(deps) |-> c \o <<k>>]
              h1 == heap @@ [id \in Range(ids) |->
                               NewResult(deps[id[Len(id)]], downloadStats,
                                         calls[c].size)]
              results == SortByDownloads(h1, ids)
              cs1 == [calls EXCEPT ![c].results = results]
              expanded == Selected(h1, results)
          IN  /\ IF Recursing(calls[c].depths)
                 THEN /\ calls' =
                           [cs1 EXCEPT ![c].pc = "join",
                                       ![c].expanded = expanded]
                           @@ [id \in Range(expanded) |->
                                 NewCall(h1[id].name, calls[c].depths - 1)]
                      /\ heap' = h1
                      /\ fetches' = [fetches EXCEPT
                                       !.registry = @ + Len(expanded)]
                      /\ UNCHANGED rendered
                 ELSE /\ Complete(c, [cs1 EXCEPT ![c].topResults = results],
                                  h1)
                      /\ UNCHANGED fetches
              /\ UNCHANGED stderr
  /\ UNCHANGED <<token, parsed, downloadsView, argv, proc, disk, listed, fmt>>

\* The mutant: after the expansions the call goes on with its whole list.
JoinReturnsAll(c) ==
  /\ proc.state = "running"
  /\ calls[c].pc = "join"
  /\ \A id \in Range(calls[c].expanded) : calls[id].pc = "done"
  /\ Complete(c, [calls EXCEPT ![c].topResults = calls[c].results], heap)
  /\ UNCHANGED <<token, parsed, downloadsView, argv, proc, fetches, disk,
                 stderr, listed, fmt>>

\* The mutant: the call goes on as soon as one expansion has returned.
JoinFirst(c) ==
  /\ proc.state = "running"
  /\ calls[c].pc = "join"
  /\ \E id \in Range(calls[c].expanded) : calls[id].pc = "done"
  /\ Complete(c, [calls EXCEPT ![c].topResults = calls[c].expanded], heap)
  /\ UNCHANGED <<token, parsed, downloadsView, argv, proc, fetches, disk,
                 stderr, listed, fmt>>

\* Promise.all fulfils: every expansion has returned and stored its
\* children; topResults is the array of the expanded nodes.
Join(c) ==
  /\ proc.state = "running"
  /\ calls[c].pc = "join"
  /\ \A id \in Range(calls[c].expanded) : calls[id].pc = "done"
  /\ Complete(c, [calls EXCEPT ![c].topResults = calls[c].expanded], heap)
  /\ UNCHANGED <<token, parsed, downloadsView, argv, proc, fetches, disk,
                 stderr, listed, fmt>>

\* Promise.all rejects: one expansion has thrown.
RejectJoin(c) ==
  /\ proc.state = "running"
  /\ calls[c].pc = "join"
  /\ \E id \in Range(calls[c].expanded) : calls[id].pc = "rejected"
  /\ Reject(c, "join")
  /\ UNCHANGED <<token, parsed, downloadsView, argv, proc, heap, fetches,
                 disk, listed, rendered, fmt>>

\* fs.writeFile settles: the full results, as they are before aggregation.
WriteFile(c) ==
  /\ proc.state = "running"
  /\ calls[c].pc = "write"
  /\ \/ /\ Reject(c, "write")
        /\ UNCHANGED <<heap, disk, rendered>>
     \/ /\ disk' = [kind |-> "json",
                    data |-> SerializeAll(heap, calls[c].results)]
        /\ Finish(c, calls, heap)
        /\ UNCHANGED stderr
  /\ UNCHANGED <<token, parsed, downloadsView, argv, proc, fetches, listed,
                 fmt>>

\* Nothing is pending any more: node ends the process with code 0.
EventLoopEmpty ==
  /\ proc.state = "running"
  /\ \A c \in DOMAIN calls : calls[c].pc \in {"done", "rejected"}
  /\ proc' = [state |-> "exited", code |-> 0]
  /\ UNCHANGED <<token, parsed, downloadsView, argv, calls, heap, fetches,
                 disk, stderr, listed, rendered, fmt>>

(***************************************************************************)
(* The format command.                                                     *)
(***************************************************************************)
\* The mutant: the entry after the first opts.number ones is printed too.
FormatShownOneMore(data, number) ==
  IF number.inf THEN data ELSE Slice(data, 0, number.n + 1)

\* topResults.slice(0, opts.number) of the format command.
FormatShown(data, number) ==
  IF number.inf THEN data ELSE Slice(data, 0, number.n)

\* main(fileName, opts) of the format command: it reads and parses the file
\* and prints the first opts.number entries.  It is run on a file of its
\* own, or on the file a run of the dependents tool has left.
FormatMain ==
  /\ proc.state \in {"unused", "exited"}
  /\ fmt.state = "idle"
  /\ \E fileName \in BOOLEAN, number \in FormatNumbers :
       IF ~fileName
       THEN fmt' = [state |-> "exited", code |-> 1, err |-> TRUE,
                    rows |-> <<>>, number |-> number]
       ELSE IF disk.kind # "json"
       THEN fmt' = [state |-> "exited", code |-> 1, err |-> TRUE,
                    rows |-> <<>>, number |-> number]
       ELSE LET shown == FormatShown(disk.data, number)
            IN  fmt' = [state |-> "exited", code |-> 0, err |-> FALSE,
                        rows |-> [i \in 1..Len(shown) |->
                                    [name |-> shown[i].name,
                                     downloads |-> shown[i].downloads,
                                     traffic |-> shown[i].traffic]],
                        number |-> number]
  /\ UNCHANGED <<token, parsed, downloadsView, argv, proc, calls, heap,
                 fetches, disk, stderr, listed, rendered>>

Next ==
  \/ Startup
  \/ \E c \in DOMAIN calls :
       \/ Resolve(c)
       \/ Dependents(c)
       \/ Stats(c)
       \/ Join(c)
       \/ RejectJoin(c)
       \/ WriteFile(c)
  \/ EventLoopEmpty
  \/ FormatMain

Spec == Init /\ [][Next]_vars

\* The steps of the dependents tool.
ToolNext ==
  \/ Startup
  \/ \E c \in DOMAIN calls :
       \/ Resolve(c)
       \/ Dependents(c)
       \/ Stats(c)
       \/ Join(c)
       \/ RejectJoin(c)
       \/ WriteFile(c)
  \/ EventLoopEmpty

RECURSIVE Power(_, _)
Power(k, d) == IF d = 0 THEN 1 ELSE k * Power(k, d - 1)

\* 1 + k + k^2 + ... + k^d: the calls of main when each call expands k nodes
\* down to depth d.
RECURSIVE SumOfPowers(_, _)
SumOfPowers(k, d) ==
  IF d = 0 THEN 1 ELSE Power(k, d) + SumOfPowers(k, d - 1)

\* The command lines of the runs followed to their end: a plain package
\* name, with every width and depth whose full tree of calls the fetches
\* can return (the outermost call and one call per returned row).
ArgvTerm ==
  {a \in [action : {TRUE}, pkg : {Str(<<"a">>)}, number : {DefaultNumber},
          file : BOOLEAN, exclude : {Undefined}, list : {FALSE},
          recursive : 0..MaxWidth, depths : 0..MaxDepths,
          accumulate : {FALSE}] :
     SumOfPowers(a.recursive, a.depths) <= MaxNodes + 1}

InitTerm ==
  /\ token = <<>>
  /\ parsed = NoParse
  /\ calls = <<>>
  /\ heap = <<>>
  /\ fetches = [registry |-> 0, dependents |-> 0, stats |-> 0]
  /\ stderr = {}
  /\ listed = NoList
  /\ rendered = NoOutput
  /\ fmt = FmtIdle
  /\ proc = [state |-> "init", code |-> 0]
  /\ argv \in ArgvTerm
  /\ downloadsView = <<>>
  /\ disk = NoDisk

\* Every fetch returns and node runs every callback that is ready: a step of
\* the tool that stays possible is taken.  Whether the format command is
\* ever run is left open.
SpecTerm == InitTerm /\ [][Next]_vars /\ WF_vars(ToolNext)

(***************************************************************************)
(* getPackageNameAndVersion on its own.                                    *)
(***************************************************************************)
InitParse ==
  /\ token \in Tokens
  /\ parsed = NoParse
  /\ downloadsView = <<>>
  /\ argv = NoAction
  /\ proc = [state |-> "unused", code |-> 0]
  /\ calls = <<>>
  /\ heap = <<>>
  /\ fetches = [registry |-> 0, dependents |-> 0, stats |-> 0]
  /\ disk = NoDisk
  /\ stderr = {}
  /\ listed = NoList
  /\ rendered = NoOutput
  /\ fmt = FmtIdle

Parse ==
  /\ ~parsed.done
  /\ LET nv == getPackageNameAndVersion(token)
     IN  parsed' = [done |-> TRUE, name |-> nv.name, version |-> nv.version]
  /\ UNCHANGED <<token, toolVars>>

NextParse == Parse

SpecParse == InitParse /\ [][NextParse]_vars

(***************************************************************************)
(* Claims.                                                                 *)
(***************************************************************************)
\* The positions (from 1) of "@" in a token.
AtPositions(t) == {i \in 1..Len(t) : t[i] = "@"}

MinOf(S) == CHOOSE x \in S : \A y \in S : x <= y

MaxOf(S) == CHOOSE x \in S : \A y \in S : x >= y

\* What C5 says of a token that starts with "@".
ScopedSplit(t) ==
  LET later == AtPositions(t) \ {1}
  IN  IF later = {} THEN [name |-> t, version |-> Undefined]
      ELSE [name |-> SubSeq(t, 1, MaxOf(later) - 1),
            version |-> Str(SubSeq(t, MaxOf(later) + 1, Len(t)))]

\* C5 as stated, for a token that does not start with "@": the version is
\* everything after the first "@".
UnscopedSplitToEnd(t) ==
  LET ats == AtPositions(t)
  IN  IF ats = {} THEN [name |-> t, version |-> Undefined]
      ELSE [name |-> SubSeq(t, 1, MinOf(ats) - 1),
            version |-> Str(SubSeq(t, MinOf(ats) + 1, Len(t)))]

\* C5 as amended: the version ends before the second "@", if there is one.
UnscopedSplitToNextAt(t) ==
  LET ats == AtPositions(t)
      rest == ats \ {MinOf(ats)}
  IN  IF ats = {} THEN [name |-> t, version |-> Undefined]
      ELSE [name |-> SubSeq(t, 1, MinOf(ats) - 1),
            version |-> Str(SubSeq(t, MinOf(ats) + 1,
                                   IF rest = {} THEN Len(t)
                                   ELSE MinOf(rest) - 1))]

\* C5 (as stated): getPackageNameAndVersion splits a scoped token at its last
\* "@" after position 0 and an unscoped token at its first "@", the version
\* being everything after that "@"; the version is undefined when there is
\* no such "@".
C5_SplitAtFirstToEnd ==
  parsed.done =>
    LET want == IF StartsWith(token, "@") THEN ScopedSplit(token)
                ELSE UnscopedSplitToEnd(token)
    IN  parsed.name = want.name /\ parsed.version = want.version

\* C5 (amended): as above, but for an unscoped token the version is the text
\* between the first "@" and the second "@" (or the end of the token).
C5_Split ==
  parsed.done =>
    LET want == IF StartsWith(token, "@") THEN ScopedSplit(token)
                ELSE UnscopedSplitToNextAt(token)
    IN  parsed.name = want.name /\ parsed.version = want.version

\* C5's case: an unscoped token with two "@" has been parsed.
C5_Witness ==
  /\ parsed.done
  /\ token = <<"a", "@", "1", "@">>
  /\ parsed.name = <<"a">>
  /\ parsed.version = Str(<<"1">>)

(***************************************************************************)
(* Claims about the tree main builds.                                      *)
(***************************************************************************)
Calls == DOMAIN calls

Nodes == DOMAIN heap

\* The place of a node in the dependents fetch of the call that made it.
FetchPos(id) == id[Len(id)]

PosIn(ids, id) == CHOOSE i \in 1..Len(ids) : ids[i] = id

SortedDesc(h, ids) ==
  \A i, j \in 1..Len(ids) :
    i < j => h[ids[i]].downloads >= h[ids[j]].downloads

TiesInFetchOrder(h, ids) ==
  \A i, j \in 1..Len(ids) :
    i < j /\ h[ids[i]].downloads = h[ids[j]].downloads
      => FetchPos(ids[i]) < FetchPos(ids[j])

\* The outermost call has aggregated (accumulate mode) and rendered.
Aggregated ==
  /\ argv.accumulate
  /\ rendered.done
  /\ Root \in Calls
  /\ calls[Root].pc = "done"

\* The step in which the outermost call aggregates and renders.
Aggregating == argv.accumulate /\ ~rendered.done /\ rendered'.done

\* The arrays main holds or has attached to a node.  The array results of
\* the outermost call is left out once accumulate mode has rewritten the
\* downloads of its nodes: only topResults is sorted again.
ListsBuilt ==
  {calls[c].results : c \in {x \in Calls : ~(x = Root /\ Aggregated)}}
  \cup {calls[c].topResults : c \in Calls}
  \cup {heap[n].children : n \in Nodes}

\* C1 (as stated): every list main builds is ordered by downloads descending
\* and nodes with equal downloads are in fetch order, also in the top-level
\* list after accumulate mode has sorted it again.
C1_SortedTiesInFetchOrder ==
  \A ids \in ListsBuilt : SortedDesc(heap, ids) /\ TiesInFetchOrder(heap, ids)

C1_SortedBeforeAndAfter ==
  \A ids \in ListsBuilt :
    /\ SortedDesc(heap, ids)
    /\ ~(Aggregated /\ ids = calls[Root].topResults)
         => TiesInFetchOrder(heap, ids)

C1_ResortKeepsOrder ==
  Aggregating =>
    LET new == calls'[Root].topResults
        old == IF calls[Root].pc = "join" THEN calls[Root].expanded
               ELSE calls[Root].topResults
    IN  IF calls[Root].pc = "stats"
        THEN TiesInFetchOrder(heap', new)
        ELSE \A i, j \in 1..Len(new) :
               i < j /\ heap'[new[i]].downloads = heap'[new[j]].downloads
                 => PosIn(old, new[i]) < PosIn(old, new[j])

\* C1 (amended): every list main builds is ordered by downloads descending,
\* also the top-level list after accumulate mode has sorted it again; nodes
\* with equal downloads are in fetch order in every list before aggregation,
\* and after aggregation nodes with equal rolled-up downloads keep the order
\* the top-level list had before it was sorted again.
C1_Sorted == []C1_SortedBeforeAndAfter /\ [][C1_ResortKeepsOrder]_vars

\* C1's case: accumulate mode has sorted a top-level list of two nodes whose
\* rolled-up downloads are equal, against their fetch order.
C1_Witness ==
  /\ Aggregated
  /\ \E i, j \in 1..Len(calls[Root].topResults) :
       LET top == calls[Root].topResults
       IN  /\ i < j
           /\ heap[top[i]].downloads = heap[top[j]].downloads
           /\ FetchPos(top[i]) > FetchPos(top[j])

\* The number of nodes up to n in the list that pass the exclude filter.
EligibleRank(ids, n) ==
  Cardinality({i \in 1..PosIn(ids, n) : filterExcludes(heap[ids[i]].name)})

RECURSIVE Subtree(_, _)
Subtree(h, id) ==
  {id} \cup UNION {Subtree(h, h[id].children[i]) :
                     i \in 1..Len(h[id].children)}

RECURSIVE TotalDownloads(_, _)
TotalDownloads(h, ids) ==
  IF ids = {} THEN 0
  ELSE LET n == CHOOSE x \in ids : TRUE
       IN  h[n].downloads + TotalDownloads(h, ids \ {n})

C3_Step ==
  Aggregating =>
    LET top == calls'[Root].topResults
        old == IF calls[Root].pc = "join" THEN calls[Root].expanded
               ELSE IF calls[Root].pc = "write" THEN calls[Root].topResults
               ELSE top
    IN  /\ Range(top) = Range(old) /\ Len(top) = Len(old)
        /\ \A n \in Range(top) :
             /\ heap'[n].children = <<>>
             /\ n \in Nodes =>
                  heap'[n].downloads =
                    TotalDownloads(heap, Subtree(heap, n))
             /\ n \notin Nodes =>
                  heap'[n].downloads =
                    DownloadsOf(downloadsView, heap'[n].name)
        /\ SortedDesc(heap', top)
        /\ \A i \in 1..Len(rendered'.rows) :
             \E n \in Range(top) :
               /\ rendered'.rows[i].name = heap'[n].name
               /\ rendered'.rows[i].downloads = heap'[n].downloads

\* C3: in accumulate mode the step that aggregates gives every top-level
\* node the sum of the downloads its subtree had before, empties its
\* children and leaves the top-level list sorted by the new downloads; the
\* rendered rows are rows of these nodes.
C3_Accumulated == [][C3_Step]_vars

\* C3's case: a top-level node has been given more downloads than any single
\* package has, and its children are gone.
C3_Witness ==
  /\ Aggregated
  /\ \E n \in Range(calls[Root].topResults) :
       /\ heap[n].downloads > MaxDownloads
       /\ heap[n].children = <<>>
       /\ \E r \in Range(rendered.rows) : r.downloads = heap[n].downloads

\* The node is a top-level node whose downloads accumulate mode has
\* replaced by the total of its subtree.
RolledUp(n) == Aggregated /\ n \in Range(calls[Root].topResults)

Callers(c) == {SubSeq(c, 1, k) : k \in 0..(Len(c) - 1)}

\* C6: a call whose package could not be resolved returns an empty list
\* when it is an expansion, and its node keeps empty children; when it is
\* the outermost call the process ends at once: no dependents were fetched,
\* no file was written, nothing was printed.
C6_ResolutionFailure ==
  \A c \in Calls :
    calls[c].info = "null" =>
      IF c # Root
      THEN /\ calls[c].pc = "done"
           /\ calls[c].topResults = <<>>
           /\ heap[c].children = <<>>
           /\ calls[c].error = "none"
      ELSE /\ proc.state = "exited"
           /\ calls[c].pc = "resolve"
           /\ Calls = {Root}
           /\ fetches.dependents = 0 /\ fetches.stats = 0
           /\ disk = NoDisk
           /\ ~rendered.done /\ ~listed.done

\* C6's case: the table was rendered although one expansion could not be
\* resolved, and a sibling of that node has its children.
C6_Witness ==
  /\ rendered.done
  /\ \E c \in Calls \ {Root} :
       /\ calls[c].info = "null"
       /\ \E n \in Nodes : Front(n) = Front(c) /\ heap[n].children # <<>>

\* What holds once call c has thrown: nothing was or will be rendered or
\* written, every caller is waiting or has rejected, and when the process
\* has ended the outermost call has rejected and its error was printed.
Aborted(c) ==
  /\ calls[c].pc = "rejected"
  /\ ~rendered.done
  /\ disk.kind = "absent"
  /\ \A a \in Callers(c) : calls[a].pc \in {"join", "rejected"}
  /\ proc.state = "exited" =>
       calls[Root].pc = "rejected" /\ "HTTP error" \in stderr

\* C7: a dependents fetch that fails in any call aborts the run: the failure
\* reaches the outermost caller, nothing is rendered, no file is written.
C7_DependentsFailureAborts ==
  \A c \in Calls : calls[c].error = "dependents" => Aborted(c)

\* C7's case: the dependents fetch of an expansion two levels down failed
\* while a sibling expansion had completed, and the outermost call rejected.
C7_Witness ==
  \E c, d \in Calls :
    /\ Len(c) = MaxDepths /\ Front(d) = Front(c)
    /\ calls[c].error = "dependents"
    /\ calls[d].pc = "done"
    /\ calls[Root].pc = "rejected"
    /\ proc.state = "exited"

\* C8 (as stated): a failed download-stats fetch does not abort: the call
\* goes on and scores every dependent with downloads 0 and traffic 0.
C8_StatsFailureDegrades ==
  \A c \in Calls :
    calls[c].error = "stats" =>
      /\ calls[c].pc # "rejected"
      /\ Len(calls[c].results) = Len(calls[c].dependents)
      /\ \A n \in Range(calls[c].results) :
           heap[n].downloads = 0 /\ heap[n].traffic = 0

\* C8 (amended): a failed download-stats fetch aborts the run like a failed
\* dependents fetch: the call scores no dependent, the failure reaches the
\* outermost caller, nothing is rendered, no file is written.
C8_StatsFailureAborts ==
  \A c \in Calls :
    calls[c].error = "stats" =>
      /\ Aborted(c)
      /\ calls[c].results = <<>>
      /\ \A n \in Nodes : Front(n) # c

\* C8's case: the download-stats fetch of an expansion with dependents
\* failed, and the outermost call rejected.
C8_Witness ==
  \E c \in Calls \ {Root} :
    /\ calls[c].error = "stats"
    /\ calls[c].dependents # <<>>
    /\ calls[Root].pc = "rejected"
    /\ proc.state = "exited"

\* C9: the process ends with code 1 and an error message when no package
\* name is given, when format cannot read or parse its file and when the
\* outermost resolution fails; with code 0 when only help was asked for.
C9_ExitCodes ==
  /\ proc.state = "exited" /\ argv.action /\ ~argv.pkg.def
       => proc.code = 1 /\ "Please provide a package name" \in stderr
  /\ fmt.state = "exited" /\ disk.kind # "json"
       => fmt.code = 1 /\ fmt.err
  /\ proc.state = "exited" /\ Root \in Calls /\ calls[Root].info = "null"
       => proc.code = 1 /\ "Failed to fetch package info" \in stderr
  /\ proc.state = "exited" /\ ~argv.action => proc.code = 0

Occurs(sub, s) ==
  \E i \in 0..(Len(s) - Len(sub)) : SubSeq(s, i + 1, i + Len(sub)) = sub

\* The comma-separated pieces of s: the stretches without a comma between
\* two commas or ends of s.
Pieces(s) ==
  {SubSeq(s, i, j - 1) :
     <<i, j>> \in {p \in (1..(Len(s) + 1)) \X (1..(Len(s) + 1)) :
                    /\ p[1] <= p[2]
                    /\ p[1] = 1 \/ s[p[1] - 1] = ","
                    /\ p[2] = Len(s) + 1 \/ s[p[2]] = ","
                    /\ \A k \in p[1]..(p[2] - 1) : s[k] # ","}}

\* The name contains one of the exclude substrings.
Excluded(name) ==
  argv.exclude.def /\ \E ex \in Pieces(argv.exclude.str) : Occurs(ex, name)

\* The nodes of a list whose names are not excluded, in the list's order.
RECURSIVE Eligible(_, _)
Eligible(h, ids) ==
  IF ids = <<>> THEN <<>>
  ELSE (IF Excluded(h[Head(ids)].name) THEN <<>> ELSE <<Head(ids)>>)
       \o Eligible(h, Tail(ids))

\* The call has scored and sorted its dependents.
Scored(c) ==
  calls[c].pc \in {"join", "write", "done"}
  \/ calls[c].error \in {"join", "write"}

\* The expansions a call has started.
Expansions(c) == {d \in Calls \ {Root} : Front(d) = c}

\* C11: every call of main with depths > 0 that has scored its dependents has
\* started exactly min(recursive, number of eligible nodes) expansions,
\* whatever --number is, and the rendered top-level table has at most
\* --number rows, whatever --recursive is.
C11_WidthAndNumber ==
  /\ \A c \in Calls :
       Scored(c) /\ calls[c].depths > 0 =>
         /\ Len(calls[c].expanded) =
              Min(argv.recursive, Len(Eligible(heap, calls[c].results)))
         /\ Expansions(c) = Range(calls[c].expanded)
         /\ Cardinality(Expansions(c)) = Len(calls[c].expanded)
  /\ rendered.done => Len(rendered.rows) <= argv.number

\* C11's case: with --number smaller than --recursive, the outermost call
\* has expanded --recursive nodes and the table shows --number rows.
C11_Witness ==
  /\ rendered.done
  /\ argv.number < argv.recursive
  /\ argv.depths > 0
  /\ Len(calls[Root].expanded) = argv.recursive
  /\ Len(rendered.rows) = argv.number

\* The rows of the nodes ids, as printOutput prints them.
RowsOfNodes(h, ids) ==
  [i \in 1..Len(ids) |->
     [name |-> h[ids[i]].name, downloads |-> h[ids[i]].downloads,
      traffic |-> h[ids[i]].traffic]]

\* The display count of a list: --number, and --recursive as well when
\* depths > 0 and recursive > 0.
DisplayCount(n) ==
  IF argv.depths # 0 /\ argv.recursive # 0
  THEN Min(argv.number, Min(argv.recursive, n))
  ELSE Min(argv.number, n)

RoundTrip ==
  /\ rendered.done
  /\ proc.state = "exited"
  /\ disk.kind = "json"
  /\ fmt.state = "exited" /\ fmt.code = 0
  /\ ~fmt.number.inf /\ fmt.number.n = argv.number

FileIsTable ==
  /\ \A n \in Range(calls[Root].results) : ~Excluded(heap[n].name)
  /\ Recursing(argv.depths) =>
       Len(calls[Root].expanded) = Len(calls[Root].results)
  /\ argv.accumulate =>
       \A i \in 1..Len(disk.data) : disk.data[i].children = <<>>

Movers == {c \in Calls : calls'[c] # calls[c]}

\* The step in which call c gets past its Promise.all.
Joining(c) == calls[c].pc = "join" /\ calls'[c].pc \in {"write", "done"}

\* The order of ids is the order its nodes have in the list all.
InOrderOf(all, ids) ==
  \A i, j \in 1..Len(ids) : i < j => PosIn(all, ids[i]) < PosIn(all, ids[j])

C14_Step ==
  /\ \A c \in Calls :
       Joining(c) =>
         /\ \A d \in Range(calls[c].expanded) : calls[d].pc = "done"
         /\ Range(calls'[c].topResults) = Range(calls[c].expanded)
         /\ ~(c = Root /\ argv.accumulate) =>
              calls'[c].topResults = calls[c].expanded
         /\ InOrderOf(calls[c].results, calls[c].expanded)
         /\ SortedDesc(heap', calls'[c].topResults)
  /\ \A n \in Nodes :
       heap'[n] # heap[n] =>
         \/ /\ Movers = {n}
            /\ calls'[n].pc = "done"
            /\ heap'[n] = [heap[n] EXCEPT !.children = calls'[n].topResults]
         \/ /\ Aggregating
            /\ Movers = {Root}
            /\ n \in Range(calls'[Root].topResults)
  /\ \A n \in DOMAIN heap' \ Nodes : Movers = {Front(n)}

C14_Owned ==
  \A c \in Calls \ {Root} :
    calls[c].pc = "done" =>
      heap[c].children =
        IF Aggregated /\ Len(c) = 1 THEN <<>> ELSE calls[c].topResults

\* C14: a call gets past its Promise.all only when every expansion it started
\* has returned, and it then holds the expanded nodes in the order of its
\* sorted list; a step of a call writes only the children of the node the
\* call expands and creates only nodes of its own list, so that the children
\* of a node are the list its own expansion returned, in whatever order the
\* expansions ran (until accumulate mode empties the top-level nodes).
C14_FanIn == []C14_Owned /\ [][C14_Step]_vars

\* C14's case: of two expansions the outermost call is waiting for, the one
\* of the second node has returned and stored children while the one of the
\* first node is still waiting for a fetch.
C14_Witness ==
  /\ Root \in Calls
  /\ calls[Root].pc = "join"
  /\ Len(calls[Root].expanded) = 2
  /\ LET x == calls[Root].expanded[1]
         y == calls[Root].expanded[2]
     IN  /\ calls[x].pc \in {"resolve", "dependents", "stats"}
         /\ calls[y].pc = "done"
         /\ heap[y].children # <<>>

(***************************************************************************)
(* Claims about what a call returns.                                       *)
(***************************************************************************)
\* The call has got past its recursion with a list to return or to render.
Returned(c) ==
  /\ calls[c].pc \in {"write", "done"}
  /\ calls[c].info = "ok"
  /\ ~argv.list

\* C15 (as stated): the list a call returns, or the outermost call renders,
\* holds all the version-filtered dependents of its package, also the nodes
\* that were not expanded.
C15_ReturnsFullList ==
  \A c \in Calls :
    Returned(c) =>
      /\ Len(calls[c].topResults) = Len(calls[c].dependents)
      /\ Range(calls[c].topResults) = Range(calls[c].results)

\* C15 (amended): a call that does not recurse returns its whole sorted list;
\* a call that recurses returns only the nodes it expanded, the first
\* recursive nodes of its sorted list whose names are not excluded, in that
\* order, each with the list its expansion returned as children; the nodes
\* it did not expand remain in its array results only, which the outermost
\* call writes to the file.
C15_ReturnsListOrSelection ==
  /\ \A c \in Calls :
       Returned(c) =>
         LET el == Eligible(heap, calls[c].results)
             ret == IF Recursing(calls[c].depths)
                    THEN SubSeq(el, 1, Min(argv.recursive, Len(el)))
                    ELSE calls[c].results
         IN  /\ Len(calls[c].results) = Len(calls[c].dependents)
             /\ Range(calls[c].topResults) = Range(ret)
             /\ Len(calls[c].topResults) = Len(ret)
             /\ ~(c = Root /\ argv.accumulate) => calls[c].topResults = ret
             /\ SortedDesc(heap, calls[c].topResults)
             /\ c # Root /\ ~Aggregated =>
                  heap[c].children = calls[c].topResults
  /\ disk.kind = "json" /\ proc.state # "unused" =>
       Len(disk.data) = Len(calls[Root].dependents)

\* C15's case: the outermost call has rendered after expanding fewer nodes
\* than its list has nodes that are not excluded, and has written them all.
C15_Witness ==
  /\ rendered.done
  /\ Recursing(argv.depths)
  /\ disk.kind = "json"
  /\ Len(calls[Root].topResults)
       < Len(Eligible(heap, calls[Root].results))
  /\ Len(disk.data) = Len(calls[Root].results)

(***************************************************************************)
(* Claims about termination.                                               *)
(***************************************************************************)
\* The run of the tool is over (or the tool was never run).
Ended == proc.state \in {"exited", "unused"}

C16_Bounded ==
  /\ \A c \in Calls :
       /\ calls[c].depths = argv.depths - Len(c)
       /\ calls[c].depths >= 0
       /\ c # Root => calls[c].depths = calls[Front(c)].depths - 1
  /\ \A i \in 0..argv.depths :
       Cardinality({c \in Calls : Len(c) = i}) <= Power(argv.recursive, i)
  /\ Cardinality(Calls) <= SumOfPowers(argv.recursive, argv.depths)

=============================================================================
